---- MODULE Spec2Model ----
(***************************************************************************)
(* Model of internal/logger (logger.go) of the file upload service: the    *)
(* handler selection of New, the attribute-accumulating wrappers           *)
(* (WithComponent, WithOperation, WithRequestID), the request-ID context    *)
(* propagation (GetRequestID) and the Error / Fatal / TimeTrack helpers,    *)
(* together with the two configuration values New consumes                 *)
(* (config.getEnv, config.parseLogLevel).                                   *)
(*                                                                         *)
(* log/slog, context and the Go slice primitives are modelled by what they  *)
(* do: a handler keeps the attributes given to With in order and never      *)
(* removes one, a context is a chain of key/value bindings searched from    *)
(* the innermost one, append writes in place when the slice has spare       *)
(* capacity and allocates otherwise.                                        *)
(***************************************************************************)
EXTENDS Integers, Sequences, FiniteSets, TLC

\* ------------------------------------------------------------------ bounds

\* wrappers alive at once (the base logger included)
MaxLoggers == 3
\* contexts alive at once (context.Background() included)
MaxCtxs == 3
\* capacity of the caller's attribute array handed to Error/Fatal/TimeTrack
SliceCap == 2

\* ------------------------------------------------------------ slog levels

LevelDebug == -4
LevelInfo == 0
LevelWarn == 4
LevelError == 8

\* ---------------------------------------------------------------- config

\* strings.ToLower on the LOG_LEVEL spellings the model feeds in
ToLower(s) ==
    CASE s = "DEBUG" -> "debug"
      [] s = "Warn" -> "warn"
      [] OTHER -> s

LogLevelInputs == {"debug", "info", "warn", "error", "DEBUG", "Warn", "verbose", ""}

parseLogLevel(level) ==
    CASE ToLower(level) = "debug" -> LevelDebug
      [] ToLower(level) = "info" -> LevelInfo
      [] ToLower(level) = "warn" -> LevelWarn
      [] ToLower(level) = "error" -> LevelError
      [] OTHER -> LevelInfo

\* os.LookupEnv: a variable is either unset or set to a value
Unset == [exists |-> FALSE, value |-> ""]
SetTo(v) == [exists |-> TRUE, value |-> v]

getEnv(lookup, defaultValue) ==
    IF lookup.exists THEN lookup.value ELSE defaultValue

EnvironmentInputs ==
    {Unset, SetTo("production"), SetTo("development"), SetTo("staging")}

\* ------------------------------------------------------------- attributes

Attr(k, v) == [key |-> k, value |-> v]

\* slog.Attr{}: the zero attribute, which handlers drop
EmptyAttr == Attr("", "")

Range(s) == {s[i] : i \in 1..Len(s)}

Keys(s) == {s[i].key : i \in 1..Len(s)}

\* ------------------------------------------------------------------ state

VARIABLES
    env,        \* New's env argument, captured by the ReplaceAttr closure
    minLevel,   \* HandlerOptions.Level
    loggers,    \* loggers[w]: the attributes bound to wrapper w, in With order
    derivation, \* history: derivation[w] = [parent, added] of wrapper w
    ctxs,       \* ctxs[c]: the bindings of context c, innermost last
    touched,    \* history: contexts that descend from a WithRequestID result
    issued,     \* history: the (ctx, logger, id) returned by each WithRequestID
    backing,    \* the caller's attribute array as the most recent call left it
    lastCall,   \* the most recent Error / Fatal / TimeTrack call
    out,        \* the lines that call wrote to os.Stdout
    running,    \* FALSE once os.Exit has been called
    exitCode    \* the status given to os.Exit

vars == <<env, minLevel, loggers, derivation, ctxs, touched, issued,
          backing, lastCall, out, running, exitCode>>

\* ---------------------------------------------------------------- handler

\* slog's level filter (HandlerOptions.Level = level): a record passes when its
\* level is at or above the minimum
Enabled(min, level) == level >= min

\* the ReplaceAttr closure of New
ReplaceAttr(e, a) ==
    IF e = "development" /\ a.key = "time" THEN EmptyAttr ELSE a

\* New's choice between slog.NewJSONHandler and slog.NewTextHandler
HandlerFormat(e) == IF e = "production" THEN "json" ELSE "text"

LevelName(level) ==
    CASE level = LevelDebug -> "DEBUG"
      [] level = LevelInfo -> "INFO"
      [] level = LevelWarn -> "WARN"
      [] OTHER -> "ERROR"

\* the line the selected handler writes for one record: the built-in fields, the
\* bound attributes and the call-site attributes, each passed through ReplaceAttr
\* and dropped when it comes back empty
Handle(e, level, msg, bound, attrs) ==
    LET raw == <<Attr("time", "now"), Attr("level", LevelName(level)), Attr("msg", msg)>>
                 \o bound \o attrs
        replaced == [i \in 1..Len(raw) |-> ReplaceAttr(e, raw[i])]
        kept(a) == a # EmptyAttr
    IN [format |-> HandlerFormat(e),
        fields |-> SelectSeq(replaced, kept),
        level |-> level,
        msg |-> msg,
        bound |-> bound,
        attrs |-> attrs]

\* l.LogAttrs(context.Background(), level, msg, attrs...): the lines written
LogAttrsUnfiltered(e, min, bound, level, msg, attrs) ==
    <<Handle(e, level, msg, bound, attrs)>>

LogAttrs(e, min, bound, level, msg, attrs) ==
    IF Enabled(min, level) THEN <<Handle(e, level, msg, bound, attrs)>> ELSE <<>>

\* ---------------------------------------------------------------- wrappers

\* l.With(attr) with a key-replacing (map-like) handler
WithLastWins(bound, a) ==
    LET other(b) == b.key # a.key IN Append(SelectSeq(bound, other), a)

\* l.With(attr) with a handler that puts the newest attribute first
WithPrepend(bound, a) == <<a>> \o bound

\* l.With(attr): the handler's attributes followed by the new one
With(bound, a) == Append(bound, a)

\* &Logger{l.With(attr)} writing through to the receiver
NewLoggerInPlace(ls, w, a) ==
    Append([ls EXCEPT ![w] = With(ls[w], a)], With(ls[w], a))

\* &Logger{l.With(attr)}: a fresh wrapper; the receiver is left as it was
NewLogger(ls, w, a) == Append(ls, With(ls[w], a))

\* ---------------------------------------------------------------- contexts

\* the dynamic type and value of a context key; RequestIDKey is of type ctxKey
RequestIDKey == [type |-> "ctxKey", name |-> "request_id"]

\* the plain string "request_id" some other component might use as a key
PlainKey == [type |-> "string", name |-> "request_id"]

StrVal(s) == [kind |-> "string", val |-> s]
IntVal == [kind |-> "int", val |-> "42"]
NilVal == [kind |-> "nil", val |-> ""]

\* context.WithValue(ctx, key, val)
WithValue(ctx, key, val) == Append(ctx, [key |-> key, val |-> val])

\* ctx.Value(key): the innermost binding of key, nil when there is none
Value(ctx, key) ==
    LET hits == {i \in 1..Len(ctx) : ctx[i].key = key}
    IN IF hits = {} THEN NilVal
       ELSE ctx[CHOOSE i \in hits : \A j \in hits : j <= i].val

\* a lookup under the plain string key instead of RequestIDKey
GetRequestIDPlainKey(ctx) ==
    LET v == Value(ctx, PlainKey) IN IF v.kind = "string" THEN v.val ELSE ""

GetRequestID(ctx) ==
    LET v == Value(ctx, RequestIDKey) IN IF v.kind = "string" THEN v.val ELSE ""

\* uuid.New().String(): the n-th identifier generated, distinct from the others
UUIDPool == <<"uuid-1", "uuid-2", "uuid-3", "uuid-4", "uuid-5">>
NewUUID(n) == UUIDPool[n]

\* what code outside WithRequestID binds in a context: an unrelated value under
\* the plain string key, and a value of an unexpected shape under RequestIDKey
CallerBindings ==
    {[key |-> PlainKey, val |-> StrVal("caller-id")],
     [key |-> RequestIDKey, val |-> IntVal]}

\* ------------------------------------------------------------------ slices

\* a []slog.Attr value: a prefix of the caller's array (shared) or of an array
\* append allocated (data); store is the caller's array as the writes left it
CallerSlice(arr, n) == [store |-> arr, shared |-> TRUE, data |-> <<>>, len |-> n]

Contents(s) == IF s.shared THEN SubSeq(s.store, 1, s.len) ELSE s.data

\* append(attrs, a): in place while the array has spare capacity, into a new
\* array otherwise
AppendAttr(s, a) ==
    IF s.shared /\ s.len < Len(s.store)
    THEN [s EXCEPT !.store[s.len + 1] = a, !.len = s.len + 1]
    ELSE [store |-> s.store, shared |-> FALSE,
          data |-> Append(Contents(s), a), len |-> s.len + 1]

\* the attributes the call sites pass
CallSiteAttrs ==
    <<Attr("file", "a.png"), Attr("size", "10"), Attr("bucket", "b"), Attr("user", "u")>>

CallerArray == [i \in 1..SliceCap |-> CallSiteAttrs[i]]

\* ------------------------------------------------------- Error, Fatal, TimeTrack

NilErr == "<nil>"
Errs == {NilErr, "disk full"}

\* runtime.Stack(stack, false) into the 4096-byte buffer: the text of the calling
\* goroutine's frames, never empty
Stack == "goroutine 1 [running]:"

\* Error's enrichment with the level check dropped
ErrorAttrsNoLevelCheck(min, err, s) ==
    IF err # NilErr
    THEN [slice |-> AppendAttr(AppendAttr(s, Attr("error", err)), Attr("stack", Stack)),
          captured |-> TRUE]
    ELSE [slice |-> s, captured |-> FALSE]

\* Error's enrichment with the stack capture outside the err # nil branch
ErrorAttrsNoErrGuard(min, err, s) ==
    LET s1 == IF err # NilErr THEN AppendAttr(s, Attr("error", err)) ELSE s
    IN IF Enabled(min, LevelDebug)
       THEN [slice |-> AppendAttr(s1, Attr("stack", Stack)), captured |-> TRUE]
       ELSE [slice |-> s1, captured |-> FALSE]

\* the attrs Error hands to LogAttrs, and whether runtime.Stack was called
ErrorAttrs(min, err, s) ==
    IF err # NilErr
    THEN LET s1 == AppendAttr(s, Attr("error", err))
         IN IF Enabled(min, LevelDebug)
            THEN [slice |-> AppendAttr(s1, Attr("stack", Stack)), captured |-> TRUE]
            ELSE [slice |-> s1, captured |-> FALSE]
    ELSE [slice |-> s, captured |-> FALSE]

\* time.Since(start) as slog.Duration renders it
Elapsed == "50ms"

\* the attrs TimeTrack hands to LogAttrs
TimeTrackAttrs(s) == AppendAttr(s, Attr("duration", Elapsed))

\* Fatal falling through instead of exiting
FatalReturns == [running |-> TRUE, exitCode |-> 0]

\* os.Exit(1)
FatalExit == [running |-> FALSE, exitCode |-> 1]

NoCall ==
    [op |-> "none", logger |-> 0, msg |-> "", err |-> NilErr, passed |-> <<>>,
     captured |-> FALSE, returned |-> TRUE]

\* ------------------------------------------------------------------- Init

\* main: config.Load's two values, then logger.New(env, level)
Init ==
    /\ \E e \in EnvironmentInputs : env = getEnv(e, "development")
    /\ \E s \in LogLevelInputs : minLevel = parseLogLevel(s)
    /\ loggers = <<(<<>>)>>
    /\ derivation = <<[parent |-> 0, added |-> EmptyAttr]>>
    /\ ctxs = <<(<<>>)>>
    /\ touched = {}
    /\ issued = <<>>
    /\ backing = CallerArray
    /\ lastCall = NoCall
    /\ out = <<>>
    /\ running = TRUE
    /\ exitCode = 0

\* ---------------------------------------------------------------- actions

Components == {"uploader", "resizer"}
Operations == {"upload"}

Derive(w, a) ==
    /\ running
    /\ Len(loggers) < MaxLoggers
    /\ loggers' = NewLogger(loggers, w, a)
    /\ derivation' = Append(derivation, [parent |-> w, added |-> a])

WithComponent ==
    \E w \in DOMAIN loggers, component \in Components :
        /\ Derive(w, Attr("component", component))
        /\ UNCHANGED <<env, minLevel, ctxs, touched, issued, backing, lastCall, out,
                       running, exitCode>>

WithOperation ==
    \E w \in DOMAIN loggers, operation \in Operations :
        /\ Derive(w, Attr("operation", operation))
        /\ UNCHANGED <<env, minLevel, ctxs, touched, issued, backing, lastCall, out,
                       running, exitCode>>

WithRequestID ==
    \E w \in DOMAIN loggers, c \in DOMAIN ctxs :
        LET requestID == NewUUID(Len(issued) + 1) IN
        /\ Len(ctxs) < MaxCtxs
        /\ Derive(w, Attr("request_id", requestID))
        /\ ctxs' = Append(ctxs, WithValue(ctxs[c], RequestIDKey, StrVal(requestID)))
        /\ touched' = touched \cup {Len(ctxs) + 1}
        /\ issued' = Append(issued, [ctx |-> Len(ctxs) + 1, logger |-> Len(loggers) + 1,
                                     id |-> requestID])
        /\ UNCHANGED <<env, minLevel, backing, lastCall, out, running, exitCode>>

\* code outside WithRequestID deriving a context with context.WithValue
CallerWithValue ==
    \E c \in DOMAIN ctxs, b \in CallerBindings :
        /\ running
        /\ Len(ctxs) < MaxCtxs
        /\ ctxs' = Append(ctxs, WithValue(ctxs[c], b.key, b.val))
        /\ touched' = IF c \in touched THEN touched \cup {Len(ctxs) + 1} ELSE touched
        /\ UNCHANGED <<env, minLevel, loggers, derivation, issued, backing, lastCall,
                       out, running, exitCode>>

\* The call sites: each builds its array of SliceCap attributes anew and passes
\* its first n elements as attrs... (the slice keeps the array's spare capacity);
\* backing is that array once the call is over.

\* the body of Error, entered from op ("Error" or "Fatal")
ErrorBody(op, w, msg, err, n, returned) ==
    LET r == ErrorAttrs(minLevel, err, CallerSlice(CallerArray, n)) IN
    /\ backing' = r.slice.store
    /\ out' = LogAttrs(env, minLevel, loggers[w], LevelError, msg, Contents(r.slice))
    /\ lastCall' = [op |-> op, logger |-> w, msg |-> msg, err |-> err,
                    passed |-> SubSeq(CallerArray, 1, n), captured |-> r.captured,
                    returned |-> returned]

Error ==
    \E w \in DOMAIN loggers, err \in Errs, n \in 0..SliceCap :
        /\ running
        /\ ErrorBody("Error", w, "upload failed", err, n, TRUE)
        /\ UNCHANGED <<env, minLevel, loggers, derivation, ctxs, touched, issued,
                       running, exitCode>>

Fatal ==
    \E w \in DOMAIN loggers, err \in Errs, n \in 0..SliceCap :
        /\ running
        /\ ErrorBody("Fatal", w, "cannot start", err, n, FatalExit.running)
        /\ running' = FatalExit.running
        /\ exitCode' = FatalExit.exitCode
        /\ UNCHANGED <<env, minLevel, loggers, derivation, ctxs, touched, issued>>

TimeTrack ==
    \E w \in DOMAIN loggers, n \in 0..SliceCap :
        LET s == TimeTrackAttrs(CallerSlice(CallerArray, n)) IN
        /\ running
        /\ backing' = s.store
        /\ out' = LogAttrs(env, minLevel, loggers[w], LevelDebug, "resize" \o " completed",
                           Contents(s))
        /\ lastCall' = [op |-> "TimeTrack", logger |-> w, msg |-> "resize", err |-> NilErr,
                        passed |-> SubSeq(CallerArray, 1, n), captured |-> FALSE,
                        returned |-> TRUE]
        /\ UNCHANGED <<env, minLevel, loggers, derivation, ctxs, touched, issued,
                       running, exitCode>>

Next ==
    \/ WithComponent
    \/ WithOperation
    \/ WithRequestID
    \/ CallerWithValue
    \/ Error
    \/ Fatal
    \/ TimeTrack

Spec == Init /\ [][Next]_vars

\* the logging paths alone: wrappers tagged by WithComponent emitting through
\* Error, Fatal and TimeTrack
NextLogging ==
    \/ WithComponent
    \/ Error
    \/ Fatal
    \/ TimeTrack

SpecLogging == Init /\ [][NextLogging]_vars

\* the derivations alone: wrappers and contexts, no record emitted
NextDeriving ==
    \/ WithComponent
    \/ WithOperation
    \/ WithRequestID
    \/ CallerWithValue

SpecDeriving == Init /\ [][NextDeriving]_vars

\* ------------------------------------------------------- what the claims use

LastCallIs(ops) == lastCall.op \in ops

BuiltinKeys == {"time", "level", "msg"}

\* the attributes of a written line, its built-in fields left out
AttrFields(line) ==
    LET attribute(a) == a.key \notin BuiltinKeys IN SelectSeq(line.fields, attribute)

HasKey(attrs, k) == \E i \in 1..Len(attrs) : attrs[i].key = k

\* the attributes attached along the derivation chain of wrapper w, root first
RECURSIVE ChainSeq(_)
ChainSeq(w) ==
    IF derivation[w].parent = 0 THEN <<>>
    ELSE Append(ChainSeq(derivation[w].parent), derivation[w].added)

ChainAttrs(w) == Range(ChainSeq(w))

\* the attributes a call site passes along with the probe record below
ProbeAttrs == SubSeq(CallerArray, 1, 1)

\* what wrapper w writes for an error-level record with ProbeAttrs
EmittedBy(w) == LogAttrs(env, minLevel, loggers[w], LevelError, "probe", ProbeAttrs)

\* ------------------------------------------------------------------ claims

\* C1: a logger built by New writes every record as JSON with a `time` key when
\* the environment is "production", and as text without a `time` key for any
\* other environment.
C1_EncodingFollowsEnvironment ==
    \A i \in DOMAIN out :
        IF env = "production"
        THEN out[i].format = "json" /\ "time" \in Keys(out[i].fields)
        ELSE out[i].format = "text" /\ "time" \notin Keys(out[i].fields)

\* C2 as stated: Error captures a stack and appends a `stack` attribute if and
\* only if debug-level logging is enabled, whatever err is.
C2_StackIffDebugEnabled ==
    LastCallIs({"Error", "Fatal"}) =>
        /\ lastCall.captured <=> Enabled(minLevel, LevelDebug)
        /\ \A i \in DOMAIN out :
              HasKey(out[i].attrs, "stack") <=> Enabled(minLevel, LevelDebug)

\* C2 as amended: Error captures a stack and appends a `stack` attribute if and
\* only if err is non-nil and debug-level logging is enabled; a logger whose
\* minimum level is Info or higher never captures one.
C2_StackIffDebugEnabledAndErr ==
    LastCallIs({"Error", "Fatal"}) =>
        /\ lastCall.captured <=> (lastCall.err # NilErr /\ Enabled(minLevel, LevelDebug))
        /\ \A i \in DOMAIN out : HasKey(out[i].attrs, "stack") <=> lastCall.captured
        /\ minLevel >= LevelInfo =>
              /\ ~lastCall.captured
              /\ \A i \in DOMAIN out : ~HasKey(out[i].fields, "stack")

\* an Error call with a nil err on a debug-level logger: one record, no stack
C2_Witness ==
    /\ LastCallIs({"Error"})
    /\ lastCall.err = NilErr
    /\ Enabled(minLevel, LevelDebug)
    /\ Len(out) = 1
    /\ ~HasKey(out[1].fields, "stack")

\* C3: on a logger with minimum level Debug, the record Error writes carries a
\* non-empty `stack` attribute and an `error` attribute holding err's message
\* when err is non-nil, and neither attribute when err is nil.
C3_DebugErrorRecord ==
    (LastCallIs({"Error"}) /\ minLevel = LevelDebug) =>
        /\ Len(out) = 1
        /\ \A i \in DOMAIN out :
              LET fields == AttrFields(out[i]) IN
              IF lastCall.err # NilErr
              THEN /\ \E j \in DOMAIN fields :
                        fields[j].key = "stack" /\ fields[j].value # ""
                   /\ \E j \in DOMAIN fields :
                        fields[j].key = "error" /\ fields[j].value = lastCall.err
              ELSE ~HasKey(fields, "stack") /\ ~HasKey(fields, "error")

\* an Error call with a non-nil err on a Debug logger wrote its record
C3_Witness ==
    /\ LastCallIs({"Error"})
    /\ minLevel = LevelDebug
    /\ lastCall.err # NilErr
    /\ Len(out) = 1
    /\ HasKey(out[1].fields, "stack")

\* C4: a call to Fatal writes exactly one error-level record, then ends the
\* process with exit status 1 and never returns to the caller; nothing but Fatal
\* ends the process.
C4_FatalLogsOnceThenExits ==
    /\ LastCallIs({"Fatal"}) <=> ~running
    /\ running => exitCode = 0
    /\ ~running =>
          /\ exitCode = 1
          /\ Len(out) = 1
          /\ out[1].level = LevelError
          /\ ~lastCall.returned
          /\ ~ENABLED Next

\* Fatal with a nil err on a logger whose minimum level is Error
C4_Witness ==
    /\ LastCallIs({"Fatal"})
    /\ lastCall.err = NilErr
    /\ minLevel = LevelError
    /\ env = "staging"
    /\ Len(out) = 1

\* the identifier WithRequestID bound on the wrapper it returned: the value of
\* the wrapper's newest attribute, whose key is request_id
BoundRequestID(w) ==
    LET a == loggers[w][Len(loggers[w])]
    IN IF a.key = "request_id" THEN a.value ELSE "<none>"

C6_RecordCarriesAllAttached ==
    \A w \in DOMAIN loggers :
        /\ \A i \in DOMAIN EmittedBy(w) :
              Range(AttrFields(EmittedBy(w)[i])) = ChainAttrs(w) \cup Range(ProbeAttrs)
        /\ derivation[w].parent > 0 =>
              Range(loggers[derivation[w].parent]) \subseteq Range(loggers[w])

\* a wrapper two derivations deep whose chain holds two different keys
C6_Witness ==
    \E w \in DOMAIN loggers :
        /\ Len(ChainSeq(w)) = 2
        /\ Cardinality(Keys(ChainSeq(w))) = 2
        /\ Len(EmittedBy(w)) = 1

\* the value attached last under key k along the chain of wrapper w
LastAttached(w, k) ==
    LET chain == ChainSeq(w)
        at == {i \in DOMAIN chain : chain[i].key = k}
    IN chain[CHOOSE i \in at : \A j \in at : j <= i].value

\* C7 as stated: when a key is attached more than once along a chain, the
\* records of the final wrapper carry one value for it, the last attached.
C7_LastAttachedValueWins ==
    \A w \in DOMAIN loggers : \A i \in DOMAIN EmittedBy(w) :
        LET fields == AttrFields(EmittedBy(w)[i]) IN
        \A k \in Keys(ChainSeq(w)) :
            /\ Cardinality({j \in DOMAIN fields : fields[j].key = k}) = 1
            /\ \A j \in DOMAIN fields :
                  fields[j].key = k => fields[j].value = LastAttached(w, k)

\* C7 as amended: the records of the final wrapper carry every attribute
\* attached along the chain, one field per attachment in attachment order, so a
\* key attached twice appears twice, its last attached value last; attachments
\* under different keys all survive.
C7_EveryAttachmentKept ==
    \A w \in DOMAIN loggers : \A i \in DOMAIN EmittedBy(w) :
        AttrFields(EmittedBy(w)[i]) = ChainSeq(w) \o ProbeAttrs

\* a wrapper whose chain attached the component key twice, with two values
C7_Witness ==
    \E w \in DOMAIN loggers :
        /\ Len(EmittedBy(w)) = 1
        /\ Len(loggers[w]) = 2
        /\ loggers[w][1].key = "component"
        /\ loggers[w][2].key = "component"
        /\ loggers[w][1].value # loggers[w][2].value

\* C8: a derivation leaves every existing wrapper and every existing context as
\* it was: their bound attributes, hence the records they write, and what
\* GetRequestID returns on them do not change.
C8_DerivationLeavesOthersUnchanged ==
    [][/\ \A w \in DOMAIN loggers :
            /\ w \in DOMAIN loggers'
            /\ loggers'[w] = loggers[w]
       /\ \A c \in DOMAIN ctxs :
            /\ c \in DOMAIN ctxs'
            /\ ctxs'[c] = ctxs[c]
            /\ GetRequestID(ctxs'[c]) = GetRequestID(ctxs[c])]_vars

\* two siblings derived from one derived wrapper, one of them by WithRequestID
C8_Witness ==
    \E w1, w2 \in DOMAIN loggers :
        /\ w1 < w2
        /\ derivation[w1].parent = derivation[w2].parent
        /\ derivation[w1].parent > 0
        /\ derivation[w1].added.key = "component"
        /\ derivation[w2].added.key = "request_id"
        /\ Len(ctxs) = 2

\* the level Error and TimeTrack log at
CallLevel(op) == IF op = "TimeTrack" THEN LevelDebug ELSE LevelError

\* C9: a call to Error or TimeTrack returns and writes exactly one record when
\* its level is at or above the logger's minimum level and none otherwise; the
\* TimeTrack record has the message name + " completed" and carries a `duration`
\* attribute after the bound and call-site attributes.
C9_OneRecordWhenEnabled ==
    LastCallIs({"Error", "TimeTrack"}) =>
        /\ lastCall.returned
        /\ running
        /\ Len(out) = IF Enabled(minLevel, CallLevel(lastCall.op)) THEN 1 ELSE 0
        /\ \A i \in DOMAIN out :
              /\ out[i].level = CallLevel(lastCall.op)
              /\ out[i].bound = loggers[lastCall.logger]
              /\ LastCallIs({"TimeTrack"}) =>
                    /\ out[i].msg = lastCall.msg \o " completed"
                    /\ AttrFields(out[i]) =
                          loggers[lastCall.logger] \o lastCall.passed
                             \o <<Attr("duration", Elapsed)>>

\* TimeTrack on a tagged wrapper of a Debug logger, with a call-site attribute
C9_Witness ==
    /\ LastCallIs({"TimeTrack"})
    /\ Len(out) = 1
    /\ Len(lastCall.passed) = 1
    /\ Len(loggers[lastCall.logger]) = 1
    /\ HasKey(out[1].fields, "duration")

\* a TimeTrack call the level filter suppressed
C9_WitnessSuppressed ==
    LastCallIs({"TimeTrack"}) /\ minLevel = LevelInfo /\ out = <<>>

\* C10: Error, Fatal and TimeTrack leave the caller's attribute array, spare
\* capacity included, as it was before the call.
C10_CallerArrayUntouched == backing = CallerArray

====
